---- MODULE Spec2Model ----
(***************************************************************************)
(* cachex: an in-memory TTL cache (Cache), its lock-striped variants       *)
(* (ShardedCache over Cache partitions, and ShardedCache over shard with   *)
(* one shared janitor) and the background janitor.                         *)
(*                                                                         *)
(* Every critical section of the code (Lock ... Unlock, RLock ... RUnlock) *)
(* is one atomic step; what the code does between two critical sections    *)
(* (Get: lookup, time check, lazy Delete; cleanup: timestamp, sweep;       *)
(* stopJanitor: poll, close) is a separate step, so that callers and       *)
(* janitors interleave exactly where the code lets them.                   *)
(*                                                                         *)
(* SpecLock is the same program one level down: Lock and RLock are steps    *)
(* that wait for the partition's RWMutex, and the call of a stored value's  *)
(* Close inside Delete and cleanup is a state of its own.                   *)
(***************************************************************************)
EXTENDS Integers, Sequences, FiniteSets, TLC

\* ------------------------------------------------------------------ bounds
MaxTime  == 3      \* the clock runs 1..MaxTime
MaxOps   == 3      \* caller operations started in one behaviour
SweptOps == 2      \* the same, on a sharded table whose one janitor runs
ShardOps == 1      \* the same, on a sharded table that runs a janitor per shard
RaceOps  == 4      \* the same, in the behaviours of SpecRace
LiveOps  == 2      \* the same, in the behaviours of SpecLive
LockOps  == 2      \* the same, in the behaviours of SpecLock
LockSweptOps == 1  \* the same, in SpecLock on a table with a janitor
NumProcs == 2      \* concurrent callers
TTL      == 1      \* the positive defaultTTL of the configurations
Interval == 1      \* the positive cleanupInterval of the configurations

Procs  == 1..NumProcs
Keys   == {"a", "b"}

\* the three variants of the table in the repository
KCache   == "Cache"          \* cachex.go
KSharded == "ShardedCache"   \* types.go 25-107: shards are *Cache
KShardV1 == "ShardedShard"   \* sharded_cachex.go: shards are *shard, one janitor

ShardCounts == {-1, 0, 2}
MaxShards   == 2
Parts       == 0..(MaxShards - 1)

\* ------------------------------------------------------------- hashKey
\* bitwise xor of two naturals (hash/fnv: hash ^= byte)
RECURSIVE Xor(_, _)
Xor(a, b) ==
    IF a = 0 THEN b
    ELSE IF b = 0 THEN a
    ELSE (((a % 2) + (b % 2)) % 2) + 2 * Xor(a \div 2, b \div 2)

\* A 32-bit hash is kept as its two 16-bit halves <<hi, lo>>, so that the
\* arithmetic modulo 2^32 stays within the checker's integers.
Half == 65536

\* offset32 = 2166136261 = 0x811C9DC5
Offset32 == <<33052, 40389>>

\* prime32 = 16777619 = 2^24 + 403: h * prime32 = (h << 24) + h * 403
PrimeLow == 403

\* (h * prime32) mod 2^32
MulPrime32(h) ==
    LET lo == h[2] * PrimeLow
        hi == h[1] * PrimeLow + (lo \div Half) + (h[2] % 256) * 256
    IN  <<hi % Half, lo % Half>>

\* fmt.Sprintf("%v", key) of a string key: its bytes
KeyBytes(k) ==
    CASE k = "a" -> <<97>>
      [] k = "b" -> <<98>>
      [] k = "c" -> <<99>>

\* fnv.New32a().Write: for each byte, hash ^= byte; hash *= prime32
RECURSIVE Fnv32a(_, _)
Fnv32a(h, bytes) ==
    IF bytes = <<>> THEN h
    ELSE Fnv32a(MulPrime32(<<h[1], Xor(h[2], Head(bytes))>>), Tail(bytes))

\* the hash of every key, computed once
Sums == [k \in Keys |-> Fnv32a(Offset32, KeyBytes(k))]

\* h.Sum32() after the key was written
Sum32(k) == Sums[k]

\* int(h.Sum32()) % numShards, for numShards # 0 (64-bit int: no sign change)
hashKey(k, n) == (Sum32(k)[1] * (Half % n) + Sum32(k)[2]) % n

\* ------------------------------------------------------------------ state
VARIABLES
    kind,       \* which variant was constructed
    numShards,  \* len(sc.shards) (1 for a Cache)
    ttl,        \* defaultTTL
    interval,   \* cleanupInterval
    items,      \* items[i]: the map of partition i, key -> Item
    count,      \* count[i]: Cache.count of partition i
    now,        \* time.Now()
    jan,        \* jan[j]: the janitor j and its goroutine
    pc,         \* pc[p]: where caller p is
    loc,        \* loc[p]: caller p's locals (key, item read, loop index)
    ret,        \* what the Get that returned in the last step returned
    panic,      \* the runtime panic that ended the program, or "none"
    nops,       \* operations started
    limit,      \* operations the callers may start in this behaviour
    lastMut,    \* lastMut[k]: the last completed caller mutation of key k
    mu          \* mu[i]: the RWMutex of partition i (writer, readers)

vars == <<kind, numShards, ttl, interval, items, count, now, jan, pc, loc,
          ret, panic, nops, limit, lastMut, mu>>

cfgVars == <<kind, numShards, ttl, interval, limit>>

\* ------------------------------------------------------------ data types
\* Item (types.go 6-9): Expiration 0 means never expires
NoItem == [Value |-> 0, Expiration |-> 0]

NoMut == [op |-> "none", value |-> 0, at |-> 0, quiet |-> FALSE]
NoLoc == [key |-> "", item |-> NoItem, idx |-> 0, since |-> NoMut]
NoRet == [op |-> "none", key |-> "", value |-> 0, found |-> FALSE,
          expired |-> FALSE, since |-> NoMut, stopped |-> FALSE]
NoJan == [exists |-> FALSE, stop |-> "none", pc |-> "none", now |-> 0, idx |-> 0]

EmptyMap == [k \in {} |-> NoItem]

\* a sync.RWMutex nobody holds: no writer (0), no readers
Free == [w |-> 0, r |-> {}]

\* m[k] = it
Put(m, k, it) == [x \in (DOMAIN m) \cup {k} |-> IF x = k THEN it ELSE m[x]]

\* delete(m, k)
Remove(m, k) == [x \in (DOMAIN m) \ {k} |-> m[x]]

\* number of partitions that exist
NumParts == IF numShards > 0 THEN numShards ELSE 0

Running == panic = "none"

\* ShardedCache.Set/Get/Delete compute hashKey(key, len(sc.shards)) first:
\* the modulus by zero panics
DivZero == kind # KCache /\ numShards = 0

\* (mutant) the index depends on when the operation runs
PartOfByClock(k) == IF kind = KCache THEN 0 ELSE (hashKey(k, numShards) + now) % numShards

\* the partition a keyed operation goes to
PartOf(k) == IF kind = KCache THEN 0 ELSE hashKey(k, numShards)

\* ------------------------------------------------------- construction
\* newJanitor + run: the goroutine waits in its select
NewJanitor == [exists |-> TRUE, stop |-> "open", pc |-> "select", now |-> 0, idx |-> 0]

\* (mutant) the janitor is started whenever the ttl is positive
StartsJanitorTTLOnly(t, i) == t > 0

\* New: the janitor is started only if both durations are positive
StartsJanitor(t, i) == t > 0 /\ i > 0

Configs ==
    [kind : {KCache}, numShards : {1}, ttl : {0, TTL}, interval : {0, Interval}]
    \cup
    [kind : {KSharded, KShardV1}, numShards : ShardCounts, ttl : {0, TTL},
     interval : {0, Interval}]

\* the state New / NewSharded leaves behind; the callers may start lim
\* operations on the table
Constructed(c, lim) ==
    /\ limit = lim
    /\ kind = c.kind
    /\ numShards = c.numShards
    /\ ttl = c.ttl
    /\ interval = c.interval
    /\ items = [i \in Parts |-> EmptyMap]
    /\ count = [i \in Parts |-> 0]
    /\ now = 1
    /\ jan = [j \in Parts |->
                IF /\ StartsJanitor(c.ttl, c.interval)
                   /\ c.numShards >= 0
                   /\ \/ c.kind = KShardV1 /\ j = 0
                      \/ c.kind # KShardV1 /\ j < c.numShards
                THEN NewJanitor ELSE NoJan]
    /\ pc = [p \in Procs |-> "idle"]
    /\ loc = [p \in Procs |-> NoLoc]
    /\ ret = NoRet
    \* make([]*Cache, numShards) with a negative length panics
    /\ panic = IF c.numShards < 0 THEN "makeslice: len out of range" ELSE "none"
    /\ nops = 0
    /\ lastMut = [k \in Keys |-> NoMut]
    /\ mu = [i \in Parts |-> Free]

\* the operations the callers may start on a table of configuration c
LimitOf(c) ==
    IF c.kind # KCache /\ c.numShards > 1 /\ StartsJanitor(c.ttl, c.interval)
    THEN IF c.kind = KSharded THEN ShardOps ELSE SweptOps
    ELSE MaxOps

Init == \E c \in Configs : Constructed(c, LimitOf(c))

\* a Cache with a running janitor
SweptCache(c) == c.kind = KCache /\ StartsJanitor(c.ttl, c.interval)

InitRace == \E c \in {x \in Configs : SweptCache(x)} : Constructed(c, RaceOps)

InitLive == \E c \in {x \in Configs : SweptCache(x)} : Constructed(c, LiveOps)

\* --------------------------------------------------------------- Set
\* (mutant) the expiration is computed whatever ttl is
CacheSetExpAlways(t, d) == t + d

\* Cache.Set: exp stays 0 unless ttl > 0
CacheSetExp(t, d) == IF d > 0 THEN t + d ELSE 0

\* shard.set: exp := time.Now().Add(s.ttl), whatever ttl is
ShardSetExp(t, d) == t + d

\* (mutant) every item is stored with the never-expires marker
SetExpNever(t, d) == 0

SetExp(t, d) == IF kind = KShardV1 THEN ShardSetExp(t, d) ELSE CacheSetExp(t, d)

\* the item Set stores
SetItem(v, t, d) == [Value |-> v, Expiration |-> SetExp(t, d)]

\* (mutant) the counter is raised by every Set
SetCountAlways(m, c, k) == IF kind # KShardV1 THEN c + 1 ELSE c

\* Cache.Set counts a key that was not there; shard has no counter
SetCount(m, c, k) == IF kind # KShardV1 /\ k \notin DOMAIN m THEN c + 1 ELSE c

\* a caller starts an operation. Callers are interchangeable and an idle
\* caller holds no state, so of the idle callers the first one starts.
Begin(p) ==
    /\ Running
    /\ pc[p] = "idle"
    /\ \A q \in Procs : q < p => pc[q] # "idle"
    /\ nops < limit
    /\ nops' = nops + 1

Panics(msg) ==
    /\ panic' = msg
    /\ ret' = NoRet
    /\ UNCHANGED <<items, count, jan, pc, loc, lastMut>>

\* the value a caller stores: values are opaque to the cache, so every Set
\* stores a value no earlier Set has stored (as the tests do, c.Set(key, i))
NewValue == nops + 1

Set(p, k) ==
    /\ Begin(p)
    /\ UNCHANGED <<cfgVars, mu, now>>
    /\ IF DivZero THEN Panics("integer divide by zero")
       ELSE LET i == PartOf(k)
                v == NewValue IN
            /\ items' = [items EXCEPT ![i] = Put(@, k, SetItem(v, now, ttl))]
            /\ count' = [count EXCEPT ![i] = SetCount(items[i], @, k)]
            /\ lastMut' = [lastMut EXCEPT ![k] =
                             [op |-> "Set", value |-> v, at |-> now, quiet |-> TRUE]]
            /\ ret' = NoRet
            /\ UNCHANGED <<jan, pc, loc, panic>>

\* --------------------------------------------------------------- Get
\* (mutant) an item counts as expired at its expiration instant already
ExpiredAtDeadline(it, t) == it.Expiration > 0 /\ t >= it.Expiration

\* item.Expiration > 0 && now > item.Expiration
Expired(it, t) == it.Expiration > 0 /\ t > it.Expiration

\* what Get returns for an item it found, expired or not
GetFound(it) == [value |-> it.Value, found |-> TRUE]

\* var zero V; return zero, false
GetMissing == [value |-> 0, found |-> FALSE]

Result(p, k, r, exp, since) ==
    [op |-> "Get", key |-> k, value |-> r.value, found |-> r.found,
     expired |-> exp, since |-> since, stopped |-> FALSE]

\* another operation touched the key: the last Set is no longer the last
\* operation on it
Touched(m) == IF m.op = "Set" THEN [m EXCEPT !.quiet = FALSE] ELSE m

\* Get, first part: the lookup under the read lock
Get(p, k) ==
    /\ Begin(p)
    /\ UNCHANGED <<cfgVars, mu, now, items, count, jan>>
    /\ IF DivZero THEN Panics("integer divide by zero")
       ELSE LET i == PartOf(k) IN
            /\ lastMut' = [lastMut EXCEPT ![k] = Touched(@)]
            /\ UNCHANGED panic
            /\ IF k \notin DOMAIN items[i]
               THEN /\ ret' = Result(p, k, GetMissing, FALSE, lastMut[k])
                    /\ UNCHANGED <<pc, loc>>
               ELSE /\ pc' = [pc EXCEPT ![p] = "get_check"]
                    /\ loc' = [loc EXCEPT ![p] =
                                 [key |-> k, item |-> items[i][k], idx |-> i,
                                  since |-> lastMut[k]]]
                    /\ ret' = NoRet

\* Get, second part: the expiry test against time.Now()
GetCheck(p) ==
    /\ Running
    /\ pc[p] = "get_check"
    /\ UNCHANGED <<cfgVars, mu, now, items, count, jan, panic, nops, lastMut>>
    /\ IF Expired(loc[p].item, now)
       THEN /\ pc' = [pc EXCEPT ![p] = "get_delete"]
            /\ ret' = NoRet
            /\ UNCHANGED loc
       ELSE /\ pc' = [pc EXCEPT ![p] = "idle"]
            /\ loc' = [loc EXCEPT ![p] = NoLoc]
            /\ ret' = Result(p, loc[p].key, GetFound(loc[p].item), FALSE, loc[p].since)

\* Cache.Delete, shard.delete: the key is removed
DeleteItems(m, k) == Remove(m, k)

\* (mutant) the counter is lowered whether or not the key was there
DeleteCountAlways(m, c, k) == IF kind # KShardV1 THEN c - 1 ELSE c

\* Cache.Delete lowers the counter for a key that was there
DeleteCount(m, c, k) == IF kind # KShardV1 /\ k \in DOMAIN m THEN c - 1 ELSE c

\* Get, third part: c.Delete(key) (s.delete(key)) of the key found expired,
\* then the return
GetDelete(p) ==
    /\ Running
    /\ pc[p] = "get_delete"
    /\ UNCHANGED <<cfgVars, mu, now, jan, panic, nops>>
    /\ LET k == loc[p].key
           i == loc[p].idx IN
       /\ items' = [items EXCEPT ![i] = DeleteItems(@, k)]
       /\ count' = [count EXCEPT ![i] = DeleteCount(items[i], @, k)]
       /\ lastMut' = [lastMut EXCEPT ![k] = Touched(@)]
       /\ pc' = [pc EXCEPT ![p] = "idle"]
       /\ loc' = [loc EXCEPT ![p] = NoLoc]
       /\ ret' = Result(p, k, GetFound(loc[p].item), TRUE, loc[p].since)

\* ------------------------------------------------------------ Delete
Delete(p, k) ==
    /\ Begin(p)
    /\ UNCHANGED <<cfgVars, mu, now>>
    /\ IF DivZero THEN Panics("integer divide by zero")
       ELSE LET i == PartOf(k) IN
            /\ items' = [items EXCEPT ![i] = DeleteItems(@, k)]
            /\ count' = [count EXCEPT ![i] = DeleteCount(items[i], @, k)]
            /\ lastMut' = [lastMut EXCEPT ![k] =
                             [op |-> "Delete", value |-> 0, at |-> now, quiet |-> TRUE]]
            /\ ret' = NoRet
            /\ UNCHANGED <<jan, pc, loc, panic>>

\* --------------------------------------------------------------- Len
\* Cache.Len: the counter of the partition
CacheLen(i) == count[i]

\* ShardedCache.Len: total += shard.Len() over the shards 0 .. n-1
RECURSIVE TotalLen(_)
TotalLen(n) == IF n = 0 THEN 0 ELSE TotalLen(n - 1) + CacheLen(n - 1)

\* Len of the table
ShardedLen == IF kind = KCache THEN CacheLen(0) ELSE TotalLen(NumParts)

\* ------------------------------------------------------------- Clear
\* the keys that hash to partition i
KeysOf(i) == {k \in Keys : PartOf(k) = i}

\* where a loop over the partitions goes after partition i
AfterPart(p, i, again) ==
    IF i + 1 < NumParts
    THEN /\ pc' = [pc EXCEPT ![p] = again]
         /\ loc' = [loc EXCEPT ![p] = [NoLoc EXCEPT !.idx = i + 1]]
    ELSE /\ pc' = [pc EXCEPT ![p] = "idle"]
         /\ loc' = [loc EXCEPT ![p] = NoLoc]

\* Clear is called (ShardedCache over shard has no Clear); a sharded table
\* clears its partitions one after the other
Clear(p) ==
    /\ Begin(p)
    /\ kind # KShardV1
    /\ UNCHANGED <<cfgVars, mu, now, items, count, jan, panic, lastMut>>
    /\ ret' = NoRet
    /\ IF NumParts = 0
       THEN UNCHANGED <<pc, loc>>
       ELSE /\ pc' = [pc EXCEPT ![p] = "clear"]
            /\ loc' = [loc EXCEPT ![p] = NoLoc]

\* Cache.Clear of one partition: a new map, the counter reset
ClearPart(p) ==
    /\ Running
    /\ pc[p] = "clear"
    /\ UNCHANGED <<cfgVars, mu, now, jan, panic, nops>>
    /\ ret' = NoRet
    /\ LET i == loc[p].idx IN
       /\ items' = [items EXCEPT ![i] = EmptyMap]
       /\ count' = [count EXCEPT ![i] = 0]
       /\ lastMut' = [k \in Keys |->
                        IF k \in KeysOf(i)
                        THEN [op |-> "Clear", value |-> 0, at |-> now, quiet |-> TRUE]
                        ELSE lastMut[k]]
       /\ AfterPart(p, i, "clear")

\* ------------------------------------------------------------- Close
\* the janitor the Close loop looks at: ShardedCache over shard has the one
\* janitor sc.janitor; the others have one per partition
CloseDone(p, i) ==
    IF kind = KShardV1
    THEN /\ pc' = [pc EXCEPT ![p] = "idle"]
         /\ loc' = [loc EXCEPT ![p] = NoLoc]
    ELSE AfterPart(p, i, "close_poll")

\* Close has returned when its loop is over; stopped: the janitor it looked
\* at last had been stopped before
Closed(p, was) ==
    ret' = IF pc'[p] = "idle"
           THEN [NoRet EXCEPT !.op = "Close", !.stopped = was]
           ELSE NoRet

\* Close is called
Close(p) ==
    /\ Begin(p)
    /\ UNCHANGED <<cfgVars, mu, now, items, count, jan, panic, lastMut>>
    /\ IF kind # KShardV1 /\ NumParts = 0
       THEN UNCHANGED <<pc, loc>>
       ELSE /\ pc' = [pc EXCEPT ![p] = "close_poll"]
            /\ loc' = [loc EXCEPT ![p] = NoLoc]
    /\ Closed(p, FALSE)

\* (mutant) stopJanitor closes the channel without looking at it
StopNeverTaken(j) == FALSE

\* stopJanitor's select: case <-j.stop is taken when the channel is closed,
\* default otherwise
StopTaken(j) == j.stop = "closed"

\* Cache.Close: if c.janitor != nil, stopJanitor polls the stop channel
ClosePoll(p) ==
    /\ Running
    /\ pc[p] = "close_poll"
    /\ UNCHANGED <<cfgVars, mu, now, items, count, jan, panic, nops, lastMut>>
    /\ LET i == loc[p].idx IN
       /\ IF jan[i].exists /\ ~StopTaken(jan[i])
          THEN /\ pc' = [pc EXCEPT ![p] = "close_do"]
               /\ UNCHANGED loc
          ELSE CloseDone(p, i)
       /\ Closed(p, jan[i].exists)

\* (mutant) Close also empties the partition whose janitor it stops
CloseDoAndClear(p) ==
    /\ Running
    /\ pc[p] = "close_do"
    /\ UNCHANGED <<cfgVars, mu, now, nops, lastMut>>
    /\ LET i == loc[p].idx IN
       IF jan[i].stop = "closed"
       THEN /\ panic' = "close of closed channel"
            /\ ret' = NoRet
            /\ UNCHANGED <<items, count, jan, pc, loc>>
       ELSE /\ jan' = [jan EXCEPT ![i].stop = "closed"]
            /\ items' = [items EXCEPT ![i] = EmptyMap]
            /\ count' = [count EXCEPT ![i] = 0]
            /\ UNCHANGED panic
            /\ CloseDone(p, i)
            /\ Closed(p, FALSE)

\* default: close(j.stop); closing a closed channel panics
CloseDo(p) ==
    /\ Running
    /\ pc[p] = "close_do"
    /\ UNCHANGED <<cfgVars, mu, now, items, count, nops, lastMut>>
    /\ LET i == loc[p].idx IN
       IF jan[i].stop = "closed"
       THEN /\ panic' = "close of closed channel"
            /\ ret' = NoRet
            /\ UNCHANGED <<jan, pc, loc>>
       ELSE /\ jan' = [jan EXCEPT ![i].stop = "closed"]
            /\ UNCHANGED panic
            /\ CloseDone(p, i)
            /\ Closed(p, FALSE)

\* ----------------------------------------------------------- janitor
\* (mutant) a tick starts a cleanup without waiting for the one that runs
JanitorTickAnytime(j) ==
    /\ Running
    /\ jan[j].pc \in {"select", "now", "sweep"}
    /\ UNCHANGED <<cfgVars, mu, now, items, count, pc, loc, panic, nops, lastMut>>
    /\ ret' = NoRet
    /\ jan' = [jan EXCEPT ![j].pc = "now", ![j].now = 0,
                          ![j].idx = IF kind = KShardV1 THEN 0 ELSE j]

\* case <-ticker.C: target.cleanup() is called, for ShardedCache over shard
\* the cleanup of each shard in turn
JanitorTick(j) ==
    /\ Running
    /\ jan[j].pc = "select"
    /\ UNCHANGED <<cfgVars, mu, now, items, count, pc, loc, panic, nops, lastMut>>
    /\ ret' = NoRet
    /\ IF kind = KShardV1 /\ NumParts = 0
       THEN UNCHANGED jan
       ELSE jan' = [jan EXCEPT ![j].pc = "now",
                               ![j].idx = IF kind = KShardV1 THEN 0 ELSE j]

\* cleanup: now := time.Now().UnixNano(), before the lock is taken
CleanupNow(j) ==
    /\ Running
    /\ jan[j].pc = "now"
    /\ UNCHANGED <<cfgVars, mu, now, items, count, pc, loc, panic, nops, lastMut>>
    /\ ret' = NoRet
    /\ jan' = [jan EXCEPT ![j].pc = "sweep", ![j].now = now]

\* (mutant) the comparison is inverted: the items not yet expired are deleted
SweepInverted(m, t) == [k \in {x \in DOMAIN m : Expired(m[x], t)} |-> m[k]]

\* (mutant) cleanup also deletes the items that expire at its timestamp
SweepAtDeadline(m, t) ==
    [k \in {x \in DOMAIN m : ~(m[x].Expiration > 0 /\ t >= m[x].Expiration)} |-> m[k]]

\* the map after cleanup's loop: every item expired at t is deleted
Sweep(m, t) == [k \in {x \in DOMAIN m : ~Expired(m[x], t)} |-> m[k]]

\* Cache.cleanup lowers the counter once per item it deletes
SweepCount(m, c, t) ==
    IF kind = KShardV1 THEN c
    ELSE c - Cardinality(DOMAIN m \ DOMAIN Sweep(m, t))

\* cleanup: the loop under the lock; ShardedCache over shard goes on to the
\* next shard's cleanup
CleanupSweep(j) ==
    /\ Running
    /\ jan[j].pc = "sweep"
    /\ UNCHANGED <<cfgVars, mu, now, pc, loc, panic, nops, lastMut>>
    /\ ret' = NoRet
    /\ LET i == jan[j].idx
           t == jan[j].now IN
       /\ items' = [items EXCEPT ![i] = Sweep(@, t)]
       /\ count' = [count EXCEPT ![i] = SweepCount(items[i], @, t)]
       /\ jan' = IF kind = KShardV1 /\ i + 1 < NumParts
                 THEN [jan EXCEPT ![j].pc = "now", ![j].idx = i + 1, ![j].now = 0]
                 ELSE [jan EXCEPT ![j].pc = "select", ![j].idx = 0, ![j].now = 0]

\* (mutant) the stop case goes on to a cleanup instead of returning
JanitorIgnoresStop(j) ==
    /\ Running
    /\ jan[j].pc = "select"
    /\ jan[j].stop = "closed"
    /\ UNCHANGED <<cfgVars, mu, now, items, count, pc, loc, panic, nops, lastMut>>
    /\ ret' = NoRet
    /\ jan' = [jan EXCEPT ![j].pc = "now"]

\* case <-j.stop: the goroutine returns
JanitorExit(j) ==
    /\ Running
    /\ jan[j].pc = "select"
    /\ jan[j].stop = "closed"
    /\ UNCHANGED <<cfgVars, mu, now, items, count, pc, loc, panic, nops, lastMut>>
    /\ ret' = NoRet
    /\ jan' = [jan EXCEPT ![j].pc = "exited"]

\* ------------------------------------------------------------- clock
Tick ==
    /\ Running
    /\ now < MaxTime
    /\ now' = now + 1
    /\ ret' = NoRet
    /\ UNCHANGED <<cfgVars, mu, items, count, jan, pc, loc, panic, nops, lastMut>>

Next ==
    \/ \E p \in Procs, k \in Keys : Set(p, k)
    \/ \E p \in Procs, k \in Keys : Get(p, k)
    \/ \E p \in Procs : GetCheck(p)
    \/ \E p \in Procs : GetDelete(p)
    \/ \E p \in Procs, k \in Keys : Delete(p, k)
    \/ \E p \in Procs : Clear(p)
    \/ \E p \in Procs : ClearPart(p)
    \/ \E p \in Procs : Close(p)
    \/ \E p \in Procs : ClosePoll(p)
    \/ \E p \in Procs : CloseDo(p)
    \/ \E j \in Parts : JanitorTick(j)
    \/ \E j \in Parts : CleanupNow(j)
    \/ \E j \in Parts : CleanupSweep(j)
    \/ \E j \in Parts : JanitorExit(j)
    \/ Tick

Spec == Init /\ [][Next]_vars

\* a Cache with a running janitor, more operations: the races of two callers
SpecRace == InitRace /\ [][Next]_vars

\* the janitor goroutine is scheduled: a tick is delivered as long as the
\* goroutine waits in its select, and a cleanup that was called runs
JanitorRuns ==
    \A j \in Parts :
        /\ WF_vars(JanitorTick(j))
        /\ WF_vars(CleanupNow(j))
        /\ WF_vars(CleanupSweep(j))

SpecLive == InitLive /\ [][Next]_vars /\ JanitorRuns

\* select picks among its ready cases at random: a goroutine that comes back
\* to the select again and again with the stop channel closed takes that case
StopSeen == \A j \in Parts : SF_vars(JanitorExit(j))

SpecStop == InitLive /\ [][Next]_vars /\ JanitorRuns /\ StopSeen

\* ================================================== the steps at the locks
\* The same program with Lock / RLock as steps of their own: a caller or a
\* janitor waits for the mutex of its partition, holds it through the body of
\* the critical section, and the call of a value's Close inside Delete and
\* cleanup is a state of its own. The history variables lastMut and ret.since
\* serve the claims on the atomic steps and are not kept here.

\* the goroutine of janitor j as the holder of a mutex
JanId(j) == 0 - (j + 1)

\* mu.Lock() returns when there is no writer and no reader
CanLock(m) == m.w = 0 /\ m.r = {}

\* mu.RLock() returns when there is no writer
CanRLock(m) == m.w = 0

\* the mutex after t's Lock, Unlock
Locked(m, t) == [m EXCEPT !.w = t]
Unlocked(m) == [m EXCEPT !.w = 0]

\* (mutant) Get keeps its read lock
RUnlockedNever(m, p) == m

\* the mutex after p's RLock, RUnlock
RLocked(m, p) == [m EXCEPT !.r = @ \cup {p}]
RUnlocked(m, p) == [m EXCEPT !.r = @ \ {p}]

\* the mutexes a thread holds
HeldBy(t) == {i \in Parts : mu[i].w = t \/ t \in mu[i].r}

\* any(it.Value).(Closable): the table holds values of type any, of which the
\* odd ones implement Closable
IsClosable(v) == v % 2 = 1

\* The tables of the lock-level behaviours have a positive ttl (with ttl = 0
\* Get never calls Delete). A ShardedCache over Cache takes no lock of its own:
\* each of its keyed operations is the operation of one Cache, so the Cache
\* stands for its partitions; the ShardedCache over shard is there with its
\* one janitor, which locks the shards in turn.
LockConfigs ==
    {c \in Configs :
        /\ c.ttl > 0
        /\ \/ c.kind = KCache
           \/ c.kind = KShardV1 /\ c.numShards > 0 /\ StartsJanitor(c.ttl, c.interval)}

LockLimitOf(c) ==
    IF StartsJanitor(c.ttl, c.interval) THEN LockSweptOps ELSE LockOps

InitLock == \E c \in LockConfigs : Constructed(c, LockLimitOf(c))

\* a keyed operation is called: the shard is chosen, then the mutex is asked for
Called(p, k, at, it) ==
    /\ Begin(p)
    /\ pc' = [pc EXCEPT ![p] = at]
    /\ loc' = [loc EXCEPT ![p] = [NoLoc EXCEPT !.key = k, !.idx = PartOf(k), !.item = it]]
    /\ ret' = NoRet
    /\ UNCHANGED <<cfgVars, mu, now, items, count, jan, panic, lastMut>>

CallSet(p, k) ==
    /\ pc[p] = "idle"
    /\ Called(p, k, "set_lock", [NoItem EXCEPT !.Value = NewValue])

CallGet(p, k) ==
    /\ pc[p] = "idle"
    /\ Called(p, k, "get_rlock", NoItem)

CallDelete(p, k) ==
    /\ pc[p] = "idle"
    /\ Called(p, k, "delete_lock", NoItem)

\* where a caller is once its Lock has returned
AfterLock(at) ==
    CASE at = "set_lock" -> "set_locked"
      [] at = "delete_lock" -> "delete_locked"
      [] at = "get_delete" -> "get_delete_locked"

\* c.mu.Lock() of Set, of Delete, and of the Delete that Get calls
Lock(p) ==
    /\ Running
    /\ pc[p] \in {"set_lock", "delete_lock", "get_delete"}
    /\ CanLock(mu[loc[p].idx])
    /\ mu' = [mu EXCEPT ![loc[p].idx] = Locked(@, p)]
    /\ pc' = [pc EXCEPT ![p] = AfterLock(@)]
    /\ ret' = NoRet
    /\ UNCHANGED <<cfgVars, now, items, count, jan, loc, panic, nops, lastMut>>

\* c.mu.RLock() of Get
RLock(p) ==
    /\ Running
    /\ pc[p] = "get_rlock"
    /\ CanRLock(mu[loc[p].idx])
    /\ mu' = [mu EXCEPT ![loc[p].idx] = RLocked(@, p)]
    /\ pc' = [pc EXCEPT ![p] = "get_rlocked"]
    /\ ret' = NoRet
    /\ UNCHANGED <<cfgVars, now, items, count, jan, loc, panic, nops, lastMut>>

\* Set under the lock, and the deferred Unlock
SetLocked(p) ==
    /\ Running
    /\ pc[p] = "set_locked"
    /\ LET k == loc[p].key
           i == loc[p].idx IN
       /\ items' = [items EXCEPT ![i] = Put(@, k, SetItem(loc[p].item.Value, now, ttl))]
       /\ count' = [count EXCEPT ![i] = SetCount(items[i], @, k)]
       /\ mu' = [mu EXCEPT ![i] = Unlocked(@)]
    /\ pc' = [pc EXCEPT ![p] = "idle"]
    /\ loc' = [loc EXCEPT ![p] = NoLoc]
    /\ ret' = NoRet
    /\ UNCHANGED <<cfgVars, now, jan, panic, nops, lastMut>>

\* Get under the read lock: the lookup, RUnlock, and the return of a miss
GetRLocked(p) ==
    /\ Running
    /\ pc[p] = "get_rlocked"
    /\ LET k == loc[p].key
           i == loc[p].idx IN
       /\ mu' = [mu EXCEPT ![i] = RUnlocked(@, p)]
       /\ IF k \notin DOMAIN items[i]
          THEN /\ pc' = [pc EXCEPT ![p] = "idle"]
               /\ loc' = [loc EXCEPT ![p] = NoLoc]
               /\ ret' = Result(p, k, GetMissing, FALSE, NoMut)
          ELSE /\ pc' = [pc EXCEPT ![p] = "get_check"]
               /\ loc' = [loc EXCEPT ![p].item = items[i][k]]
               /\ ret' = NoRet
    /\ UNCHANGED <<cfgVars, now, items, count, jan, panic, nops, lastMut>>

\* Cache.Delete calls Close of a stored value that implements Closable;
\* shard.delete does not look at the value
CallsClose(m, k) == kind # KShardV1 /\ k \in DOMAIN m /\ IsClosable(m[k].Value)

\* delete(c.items, key), the counter, Unlock, and the return (of Get, when
\* Get called the Delete)
DeleteReturn(p, get) ==
    /\ LET k == loc[p].key
           i == loc[p].idx IN
       /\ items' = [items EXCEPT ![i] = DeleteItems(@, k)]
       /\ count' = [count EXCEPT ![i] = DeleteCount(items[i], @, k)]
       /\ mu' = [mu EXCEPT ![i] = Unlocked(@)]
       /\ ret' = IF get THEN Result(p, k, GetFound(loc[p].item), TRUE, NoMut)
                 ELSE NoRet
    /\ pc' = [pc EXCEPT ![p] = "idle"]
    /\ loc' = [loc EXCEPT ![p] = NoLoc]
    /\ UNCHANGED <<cfgVars, now, jan, panic, nops, lastMut>>

\* Delete under the lock: if the key is there and its value is Closable,
\* closable.Close() is called; otherwise the key is deleted at once
DeleteLocked(p) ==
    /\ Running
    /\ pc[p] \in {"delete_locked", "get_delete_locked"}
    /\ IF CallsClose(items[loc[p].idx], loc[p].key)
       THEN /\ pc' = [pc EXCEPT ![p] = IF @ = "delete_locked" THEN "delete_close"
                                       ELSE "get_delete_close"]
            /\ ret' = NoRet
            /\ UNCHANGED <<cfgVars, mu, now, items, count, jan, loc, panic, nops,
                           lastMut>>
       ELSE DeleteReturn(p, pc[p] = "get_delete_locked")

\* closable.Close() has returned: the rest of Delete
DeleteClosed(p) ==
    /\ Running
    /\ pc[p] \in {"delete_close", "get_delete_close"}
    /\ DeleteReturn(p, pc[p] = "get_delete_close")

\* c.mu.Lock() of cleanup
CleanupLock(j) ==
    /\ Running
    /\ jan[j].pc = "sweep"
    /\ CanLock(mu[jan[j].idx])
    /\ mu' = [mu EXCEPT ![jan[j].idx] = Locked(@, JanId(j))]
    /\ jan' = [jan EXCEPT ![j].pc = "sweep_locked"]
    /\ ret' = NoRet
    /\ UNCHANGED <<cfgVars, now, items, count, pc, loc, panic, nops, lastMut>>

\* the expired items of m whose value cleanup closes
ToClose(m, t) == {k \in DOMAIN m : Expired(m[k], t) /\ CallsClose(m, k)}

\* cleanup's loop under the lock: it comes to an expired item whose value is
\* Closable and calls its Close, or it deletes what is expired and unlocks
CleanupLocked(j) ==
    /\ Running
    /\ jan[j].pc = "sweep_locked"
    /\ ret' = NoRet
    /\ LET i == jan[j].idx
           t == jan[j].now IN
       IF ToClose(items[i], t) # {}
       THEN /\ jan' = [jan EXCEPT ![j].pc = "sweep_close"]
            /\ UNCHANGED <<cfgVars, mu, now, items, count, pc, loc, panic, nops,
                           lastMut>>
       ELSE /\ items' = [items EXCEPT ![i] = Sweep(@, t)]
            /\ count' = [count EXCEPT ![i] = SweepCount(items[i], @, t)]
            /\ mu' = [mu EXCEPT ![i] = Unlocked(@)]
            /\ jan' = IF kind = KShardV1 /\ i + 1 < NumParts
                      THEN [jan EXCEPT ![j].pc = "now", ![j].idx = i + 1, ![j].now = 0]
                      ELSE [jan EXCEPT ![j].pc = "select", ![j].idx = 0, ![j].now = 0]
            /\ UNCHANGED <<cfgVars, now, pc, loc, panic, nops, lastMut>>

\* closable.Close() has returned in cleanup: the item is deleted and the loop
\* goes on
CleanupClosed(j) ==
    /\ Running
    /\ jan[j].pc = "sweep_close"
    /\ ret' = NoRet
    /\ LET i == jan[j].idx IN
       \E k \in ToClose(items[i], jan[j].now) :
           /\ items' = [items EXCEPT ![i] = Remove(@, k)]
           /\ count' = [count EXCEPT ![i] = @ - 1]
    /\ jan' = [jan EXCEPT ![j].pc = "sweep_locked"]
    /\ UNCHANGED <<cfgVars, mu, now, pc, loc, panic, nops, lastMut>>

NextLock ==
    \/ \E p \in Procs, k \in Keys : CallSet(p, k)
    \/ \E p \in Procs, k \in Keys : CallGet(p, k)
    \/ \E p \in Procs, k \in Keys : CallDelete(p, k)
    \/ \E p \in Procs : Lock(p)
    \/ \E p \in Procs : RLock(p)
    \/ \E p \in Procs : SetLocked(p)
    \/ \E p \in Procs : GetRLocked(p)
    \/ \E p \in Procs : GetCheck(p)
    \/ \E p \in Procs : DeleteLocked(p)
    \/ \E p \in Procs : DeleteClosed(p)
    \/ \E p \in Procs : Close(p)
    \/ \E p \in Procs : ClosePoll(p)
    \/ \E p \in Procs : CloseDo(p)
    \/ \E j \in Parts : JanitorTick(j)
    \/ \E j \in Parts : CleanupNow(j)
    \/ \E j \in Parts : CleanupLock(j)
    \/ \E j \in Parts : CleanupLocked(j)
    \/ \E j \in Parts : CleanupClosed(j)
    \/ \E j \in Parts : JanitorExit(j)
    \/ Tick

\* the step of caller p that needs no lock to be free (at most one is enabled)
Proceeds(p) ==
    \/ SetLocked(p)
    \/ GetRLocked(p)
    \/ GetCheck(p)
    \/ DeleteLocked(p)
    \/ DeleteClosed(p)
    \/ ClosePoll(p)
    \/ CloseDo(p)

\* fair scheduling: a thread that can take its next step takes it; a Lock or
\* RLock that can return again and again does return (sync.Mutex hands the
\* lock to a waiter that has waited long); a called Close of a value returns
Scheduled ==
    /\ \A p \in Procs : SF_vars(Lock(p) \/ RLock(p)) /\ WF_vars(Proceeds(p))
    /\ \A j \in Parts : WF_vars(CleanupLocked(j) \/ CleanupClosed(j))

SpecLock == InitLock /\ [][NextLock]_vars /\ Scheduled

\* =================================================================== claims
\* the Get that has just returned followed the Set lastMut recorded, and the
\* ttl of that Set has not elapsed
AfterSet == ret.op = "Get" /\ ret.since.op = "Set"

NotElapsed == ttl = 0 \/ now <= ret.since.at + ttl

SetReturned == ret.found /\ ret.value = ret.since.value

\* C1: on a Cache with ttl > 0, a Get that finds the entry of its key expired
\* (and deletes it) reports found = false.
C1_ExpiredGetNotFound ==
    (kind = KCache /\ ttl > 0 /\ ret.op = "Get" /\ ret.expired) => ~ret.found

\* C2: on every table, a Get(k) that follows a Set(k, v) with no other
\* operation on k in between returns (v, true) when ttl is 0 or has not
\* elapsed since the Set.
C2_RoundTrip ==
    (AfterSet /\ ret.since.quiet /\ NotElapsed) => SetReturned

C2_Witness ==
    /\ AfterSet /\ ret.since.quiet /\ SetReturned
    /\ ttl > 0 /\ now = ret.since.at + ttl
    /\ \E j \in Parts : jan[j].pc = "sweep"

\* C3: in one partition, with concurrent callers and the janitor, a Get(k) that
\* begins after Set(k, v) returned yields (v, true) if no caller has called
\* Delete or Clear on k and no Set(k, _) has completed since, and the ttl has
\* not elapsed.
C3_SetVisible ==
    (kind = KCache /\ AfterSet /\ NotElapsed) => SetReturned

\* C4: after Delete(k) returned, k is not in its partition and Get(k) reports
\* found = false until the next Set(k, _); Delete(k) of an absent key (so also
\* the second of two consecutive Delete(k)) leaves the maps and the counters
\* unchanged.
C4_DeleteRemoves ==
    [][/\ \A k \in Keys :
            (NumParts > 0 /\ lastMut'[k].op = "Delete")
                => k \notin DOMAIN items'[PartOf(k)]
       /\ (ret'.op = "Get" /\ ret'.since.op = "Delete") => ~ret'.found
       /\ \A p \in Procs, k \in Keys :
            (/\ nops' # nops
             /\ NumParts > 0
             /\ k \notin DOMAIN items[PartOf(k)]
             /\ Delete(p, k))
                => (items' = items /\ count' = count)
      ]_vars

C4_Witness ==
    /\ ret.op = "Get" /\ ret.since.op = "Delete" /\ ~ret.found
    /\ count[0] = 0 /\ nops = 3

\* C5: on a Cache constructed with ttl = 0, every stored entry has Expiration 0,
\* no Get takes the expired path and a Get after a Set finds the entry at any
\* clock value, and a key leaves the map only in a Delete or a Clear.
C5_IdleTTLNeverExpires ==
    [][(kind = KCache /\ ttl = 0) =>
          /\ \A k \in DOMAIN items'[0] : items'[0][k].Expiration = 0
          /\ (ret'.op = "Get" /\ ret'.since.op = "Set")
                => (ret'.found /\ ~ret'.expired)
          /\ (items' # items /\ \E k \in DOMAIN items[0] : k \notin DOMAIN items'[0])
                => \E p \in Procs : ClearPart(p) \/ \E k \in Keys : Delete(p, k)
      ]_vars

C5_Witness ==
    /\ kind = KCache /\ ttl = 0
    /\ AfterSet /\ SetReturned
    /\ now > ret.since.at + 1

\* C6: on a sharded table constructed with ttl = 0 and cleanupInterval = 0,
\* every Get(x) after Set(x, y), at any clock value and after any number of
\* Gets, returns (y, true) unless a Delete, Clear or Set of x came in between.
C6_ShardedNoExpiry ==
    (kind # KCache /\ ttl = 0 /\ interval = 0 /\ AfterSet) => SetReturned

\* C7: a shard count <= 0 is rejected when the table is constructed, so no
\* Set, Get or Delete on a table panics because of the shard count.
C7_ShardCountRejected ==
    /\ (kind # KCache /\ numShards <= 0) => panic # "none"
    /\ panic # "integer divide by zero"

C7_NoShardCountPanic == panic # "integer divide by zero"

\* C8: a Close that finds no janitor, or a janitor whose stop channel is
\* already closed, does not close the channel again, does not panic and
\* leaves the janitor as it is.
C8_CloseIdempotent ==
    [][\A p \in Procs :
          (/\ pc[p] = "close_poll"
           /\ ~jan[loc[p].idx].exists \/ jan[loc[p].idx].stop = "closed"
           /\ ClosePoll(p))
              => (jan' = jan /\ panic' = "none" /\ pc'[p] # "close_do")
      ]_vars

C8_Witness == ret.op = "Close" /\ ret.stopped /\ panic = "none"

\* C9: no step of Close changes a map or a counter.
C9_CloseKeepsEntries ==
    [][((items' # items \/ count' # count)
           => ~ \E p \in Procs : Close(p) \/ ClosePoll(p) \/ CloseDo(p))
      ]_vars

\* a Get after Close still returns the entry
C9_Witness ==
    /\ AfterSet /\ SetReturned
    /\ \E j \in Parts : jan[j].stop = "closed"

\* an entry of key k is stored and its expiration has passed
ExpiredStored(k) ==
    /\ NumParts > 0
    /\ k \in DOMAIN items[PartOf(k)]
    /\ Expired(items[PartOf(k)][k], now)

SweeperStopped == \E j \in Parts : jan[j].stop = "closed"

\* C10: with ttl > 0 and cleanupInterval > 0, an entry whose expiration has
\* passed is eventually gone from the map (or replaced by a later Set) through
\* the janitor alone, with no caller doing anything, unless the janitor is
\* stopped.
C10_SweepConvergence ==
    \A k \in Keys : [](ExpiredStored(k) => <>(~ExpiredStored(k) \/ SweeperStopped))

\* the one operation ever started was a Set and its entry is gone
C10_Witness ==
    /\ nops = 1
    /\ lastMut["a"].op = "Set"
    /\ "a" \notin DOMAIN items[0]
    /\ ~SweeperStopped

\* C11: a partition of a Cache or of a ShardedCache over Cache has a janitor
\* if and only if the table was constructed with ttl > 0 and
\* cleanupInterval > 0; on a table of any variant constructed otherwise no
\* janitor and no janitor goroutine ever exists, and no Close goes on to
\* close a stop channel.
C11_SweeperExistence ==
    /\ kind # KShardV1 =>
          \A i \in Parts :
              i < NumParts => (jan[i].exists <=> (ttl > 0 /\ interval > 0))
    /\ ~(ttl > 0 /\ interval > 0) =>
          /\ \A j \in Parts : jan[j] = NoJan
          /\ \A p \in Procs : pc[p] # "close_do"

\* the janitor of the second partition of a sharded table runs a cleanup
C11_Witness ==
    /\ kind = KSharded /\ ttl > 0 /\ interval > 0
    /\ jan[1].exists /\ jan[1].pc = "sweep"

\* C12: a sharded table of N shards constructed with ttl > 0 and
\* cleanupInterval > 0 has N janitors, one owned by each partition.
C12_OneSweeperPerShard ==
    (kind # KCache /\ numShards > 0 /\ ttl > 0 /\ interval > 0) =>
        \A i \in Parts : i < NumParts => jan[i].exists

\* the partitions that store key k
Holders(k) == {i \in Parts : k \in DOMAIN items[i]}

\* C13: in a sharded table with N > 0 shards every key found in partition i
\* satisfies hash(key) mod N = i, and each key is stored in at most one
\* partition.
C13_StableRouting ==
    (kind # KCache /\ numShards > 0) =>
        \A k \in Keys :
            /\ Cardinality(Holders(k)) <= 1
            /\ \A i \in Holders(k) : i < numShards /\ hashKey(k, numShards) = i

\* both keys were stored in their partitions and a Get found one of them
C13_Witness ==
    /\ kind # KCache /\ numShards = 2
    /\ Holders("a") = {0} /\ Holders("b") = {1}
    /\ nops = 3
    /\ ret.op = "Get" /\ ret.found

\* the keys stored in the partitions 0 .. n-1
RECURSIVE StoredIn(_)
StoredIn(n) ==
    IF n = 0 THEN 0 ELSE StoredIn(n - 1) + Cardinality(DOMAIN items[n - 1])

\* C14: on a Cache and on a ShardedCache over Cache, between the critical
\* sections of Set, Delete, Clear, cleanup and Get (so also whenever no
\* operation is in progress) Len of each partition is the number of keys in
\* its map and Len of the table is the sum over the partitions; a Set of a
\* stored key leaves Len as it is and a Delete of a stored key lowers it by
\* one.
C14_LenMatchesStorage ==
    [][(kind # KShardV1 /\ numShards > 0) =>
          /\ \A i \in Parts :
                i < NumParts => CacheLen(i)' = Cardinality(DOMAIN items'[i])
          /\ ShardedLen' = StoredIn(NumParts)'
          /\ \A p \in Procs, k \in Keys :
                (nops' # nops /\ k \in DOMAIN items[PartOf(k)]) =>
                    /\ Set(p, k) => ShardedLen' = ShardedLen
                    /\ Delete(p, k) => ShardedLen' = ShardedLen - 1
      ]_vars

\* both keys were stored, one of them a second time: Len is 2 after three Sets
C14_Witness ==
    /\ kind = KSharded /\ numShards = 2
    /\ nops = 3 /\ ShardedLen = 2
    /\ lastMut["a"].op = "Set" /\ lastMut["b"].op = "Set"
    /\ lastMut["a"].value + lastMut["b"].value = 5

\* C15: Cache.Set(k, v), on a Cache or through a ShardedCache over Cache,
\* stores under k the entry with value v and expiration now + ttl when
\* ttl > 0, 0 when ttl = 0, whatever was stored under k before, and leaves
\* every other key of every partition as it was.
C15_SetReplaces ==
    [][\A p \in Procs, k \in Keys :
          (nops' # nops /\ kind # KShardV1 /\ numShards > 0 /\ Set(p, k)) =>
              /\ k \in DOMAIN items'[PartOf(k)]
              /\ items'[PartOf(k)][k] =
                    [Value |-> NewValue,
                     Expiration |-> IF ttl > 0 THEN now + ttl ELSE 0]
              /\ \A i \in Parts, x \in Keys :
                    (x # k \/ i # PartOf(k)) =>
                        /\ x \in DOMAIN items'[i] <=> x \in DOMAIN items[i]
                        /\ x \in DOMAIN items[i] => items'[i][x] = items[i][x]
      ]_vars

\* on a Cache with ttl > 0, "b" was stored at time 1 and the third operation
\* stored "a" at time 2: "a" expires at 2 + ttl, "b" still at 1 + ttl
C15_Witness ==
    /\ kind = KCache /\ ttl > 0 /\ nops = 3 /\ now = 2
    /\ DOMAIN items[0] = {"a", "b"}
    /\ lastMut["a"] = [op |-> "Set", value |-> 3, at |-> 2, quiet |-> TRUE]
    /\ lastMut["b"].op = "Set" /\ lastMut["b"].at = 1
    /\ items[0]["a"] = [Value |-> 3, Expiration |-> 2 + ttl]
    /\ items[0]["b"].Expiration = 1 + ttl
    /\ count[0] = 2

\* C16: the critical section of one cleanup call, with the timestamp t the
\* call took before it asked for the lock, removes from its partition every
\* entry whose Expiration is set and earlier than t, and leaves in place and
\* unchanged every other entry (Expiration 0, or not before t: so every entry
\* a Set stored after t was taken) and every other partition.
C16_CleanupExact ==
    [][\A j \in Parts :
          (jan[j].pc = "sweep" /\ CleanupSweep(j)) =>
              LET i == jan[j].idx
                  t == jan[j].now IN
              /\ t <= now
              /\ DOMAIN items'[i] =
                    {k \in DOMAIN items[i] :
                        ~(items[i][k].Expiration > 0 /\ items[i][k].Expiration < t)}
              /\ \A k \in DOMAIN items'[i] : items'[i][k] = items[i][k]
              /\ \A x \in Parts : x # i => items'[x] = items[x]
      ]_vars

\* two Sets were the only operations; the entry of the first is gone, removed
\* by the janitor, and the entry stored later is still there
C16_Witness ==
    /\ kind = KCache /\ nops = 2 /\ panic = "none"
    /\ lastMut["a"].op = "Set" /\ lastMut["b"].op = "Set"
    /\ lastMut["b"].at > lastMut["a"].at + ttl
    /\ DOMAIN items[0] = {"b"}
    /\ jan[0].pc = "select"

\* janitor j is inside a call of target.cleanup()
InCleanup(j) == jan[j].pc \in {"now", "sweep"}

\* the step calls target.cleanup() from janitor j (and is not the step from
\* one shard's cleanup to the next within ShardedCache.cleanup)
CleanupCalled(j) ==
    /\ jan'[j].pc = "now"
    /\ jan[j].pc # "now"
    /\ ~(kind = KShardV1 /\ jan[j].pc = "sweep" /\ jan'[j].idx = jan[j].idx + 1)

\* C18: a janitor calls cleanup only from its select, never while a cleanup it
\* called earlier has not returned.
C18_NoOverlappingSweeps ==
    [][\A j \in Parts : CleanupCalled(j) => (jan[j].pc = "select" /\ ~InCleanup(j))]_vars

\* the janitor's first cleanup removed the only entry ever stored and
\* returned; its next cleanup is under way
C18_Witness ==
    /\ kind = KCache /\ nops = 1 /\ lastMut["a"].op = "Set"
    /\ items[0] = EmptyMap
    /\ InCleanup(0)

\* the goroutine of janitor j has returned
Exited(j) == jan[j].pc = "exited"

\* C19: once the stop channel of a janitor is closed it stays closed and the
\* goroutine eventually returns from its loop (or the program has ended in a
\* panic); a goroutine that has returned stays so and takes no further step,
\* so it calls no cleanup.
C19_StopTerminal ==
    /\ \A j \in Parts :
          [](jan[j].stop = "closed" => <>(Exited(j) \/ panic # "none"))
    /\ [][\A j \in Parts :
             /\ jan[j].stop = "closed" => jan'[j].stop = "closed"
             /\ Exited(j) => (jan'[j] = jan[j] /\ ~CleanupNow(j) /\ ~CleanupSweep(j))
         ]_vars

\* the goroutine has returned after a Close and the clock reached the
\* expiration of an entry, which nothing sweeps any more
C19_Witness ==
    /\ Exited(0) /\ jan[0].stop = "closed" /\ panic = "none"
    /\ ExpiredStored("a")
    /\ \A p \in Procs : pc[p] = "idle"

\* caller p, janitor j is at the call of a value's Close
ClosingValue(p) == pc[p] \in {"delete_close", "get_delete_close"}
JanitorClosingValue(j) == jan[j].pc = "sweep_close"

\* C17: while Delete or cleanup is at the call of a Closable value's Close, the
\* key of that value is no longer in the table and the thread does not hold
\* the partition's lock.
C17_ClosableOutsideLock ==
    /\ \A p \in Procs :
          ClosingValue(p) =>
              /\ loc[p].key \notin DOMAIN items[loc[p].idx]
              /\ HeldBy(p) = {}
    /\ \A j \in Parts :
          JanitorClosingValue(j) =>
              /\ ToClose(items[jan[j].idx], jan[j].now) = {}
              /\ HeldBy(JanId(j)) = {}

\* the places where a thread is outside every critical section
Outside(p) ==
    pc[p] \in {"idle", "set_lock", "delete_lock", "get_rlock", "get_check",
               "get_delete", "close_poll", "close_do"}
JanitorOutside(j) == jan[j].pc \in {"none", "select", "now", "sweep", "exited"}

\* every caller has returned and no janitor holds a lock
Quiet ==
    /\ \A p \in Procs : pc[p] = "idle"
    /\ \A j \in Parts : HeldBy(JanId(j)) = {}

\* C20: on every variant, with callers doing Set, Get, Delete and Close and
\* the janitors their cleanups: a thread asks for a partition lock only while
\* it holds none, holds at most one, and holds none outside its critical
\* sections; under fair scheduling every lock a janitor took is released and
\* every operation a caller started returns (or the program has ended in a
\* panic).
C20_DeadlockFree ==
    /\ [][/\ \A p \in Procs :
                (mu' # mu /\ (Lock(p) \/ RLock(p))) => HeldBy(p) = {}
          /\ \A j \in Parts :
                (mu' # mu /\ CleanupLock(j)) => HeldBy(JanId(j)) = {}
         ]_vars
    /\ [](/\ \A p \in Procs :
                Cardinality(HeldBy(p)) <= 1 /\ (Outside(p) => HeldBy(p) = {})
          /\ \A j \in Parts :
                /\ Cardinality(HeldBy(JanId(j))) <= 1
                /\ JanitorOutside(j) => HeldBy(JanId(j)) = {})
    /\ []<>(Quiet \/ panic # "none")

\* on a Cache without janitor a Set stored a Closable value; the Get that found
\* it expired took the read lock, gave it back, took the lock for its Delete,
\* called the value's Close, deleted the key, unlocked and has returned
C20_Witness ==
    /\ kind = KCache /\ interval = 0 /\ panic = "none"
    /\ ret.op = "Get" /\ ret.expired /\ IsClosable(ret.value)
    /\ nops = 2 /\ count[0] = 0
    /\ \A p \in Procs : pc[p] = "idle"
    /\ mu[0] = Free

\* C21: when a Get(k) that found its entry expired returns from its lazy
\* delete, and a Set(k, v2) completed after that Get's lookup (the last Set of
\* k stored another value than the one the Get read), with no caller's Delete
\* or Clear of k since and the positive ttl of v2 not elapsed, then the entry
\* of v2 is still in the table.
C21_LazyDeleteOnlyObserved ==
    \A k \in Keys :
        (/\ NumParts > 0
         /\ ret.op = "Get" /\ ret.key = k /\ ret.expired
         /\ lastMut[k].op = "Set" /\ lastMut[k].value # ret.value
         /\ ttl > 0 /\ now <= lastMut[k].at + ttl)
            => /\ k \in DOMAIN items[PartOf(k)]
               /\ items[PartOf(k)][k].Value = lastMut[k].value

\* C22: whatever the interleaving of the callers' Closes, no Close closes a
\* stop channel that is already closed: the program never panics with
\* "close of closed channel".
C22_NoDoubleClose == panic # "close of closed channel"

====
